---- MODULE Spec2Model ----
(***************************************************************************)
(* Model of 02-open-source/kivy-app.py: the RAG pipeline (elastic_search,  *)
(* build_prompt, llm, rag) and the handlers of MyTextInputApp              *)
(* (on_text_changed, on_ask_clicked, finish_processing).                   *)
(*                                                                         *)
(* Strings are sequences of atoms.  An atom is either one character of an  *)
(* input (a letter, a blank, a newline) or one literal word of the source  *)
(* text that begins and ends with a non-blank character.  str.strip() only *)
(* looks at whether the characters at the two ends are whitespace, so it   *)
(* acts on atoms exactly as it acts on characters.                         *)
(*                                                                         *)
(* The handlers are modelled as they behave when they are called; build(),  *)
(* which only constructs widgets, is not part of the model.                *)
(*                                                                         *)
(* Two specifications share the variables: UISpec runs the handlers of the *)
(* application object, RagSpec runs calls of the module-level functions.   *)
(***************************************************************************)
EXTENDS Integers, Sequences, FiniteSets, TLC

\* ---------------------------------------------------------------- bounds
MaxSubmits == 3
MaxHits == 5
MaxChoices == 2

\* ------------------------------------------------------------- strings
NL == "\n"
SP == " "

IsSpace(c) == c \in {SP, NL}

RECURSIVE LStrip(_)
LStrip(s) == IF s # <<>> /\ IsSpace(Head(s)) THEN LStrip(Tail(s)) ELSE s

RECURSIVE RStrip(_)
RStrip(s) ==
    IF s # <<>> /\ IsSpace(s[Len(s)]) THEN RStrip(SubSeq(s, 1, Len(s) - 1)) ELSE s

\* str.strip() with no argument
Strip(s) == RStrip(LStrip(s))

\* ---------------------------------------------------------------- inputs
Queries == { <<"h", "?">>, <<>>, <<"j", SP>> }

DocPlain == [section |-> <<"s">>, question |-> <<"q">>, text |-> <<"t">>]
DocTrailing == [section |-> <<"g">>, question |-> <<"x", "?">>, text |-> <<"y", NL>>]
DocNoText == [section |-> <<"s">>, question |-> <<"q">>]
Docs == {DocPlain, DocTrailing, DocNoText}

RECURSIVE SeqsUpTo(_, _)
SeqsUpTo(S, n) ==
    IF n = 0 THEN { <<>> }
    ELSE LET shorter == SeqsUpTo(S, n - 1)
         IN  shorter \cup { Append(s, x) : s \in { t \in shorter : Len(t) = n - 1 }, x \in S }

Contents == { <<"r">>, <<SP, "r", NL>> }

\* ------------------------------------------------------- elastic_search
DefaultIndex == "course-questions-docker"
IndexNames == {DefaultIndex, "other-index"}

\* variant: the number of results asked for follows the query
SearchQuery_SizeFromQuery(query) ==
    [size |-> IF query = <<>> THEN 0 ELSE 5,
     query |-> [bool |->
        [must |-> [multi_match |->
            [query |-> query,
             fields |-> <<"question^3", "text", "section">>,
             type |-> "best_fields"]],
         filter |-> [term |-> [course |-> "data-engineering-zoomcamp"]]]]]

SearchQuery(query) ==
    [size |-> 5,
     query |-> [bool |->
        [must |-> [multi_match |->
            [query |-> query,
             fields |-> <<"question^3", "text", "section">>,
             type |-> "best_fields"]],
         filter |-> [term |-> [course |-> "data-engineering-zoomcamp"]]]]]

\* es_client.search(index=index_name, body=search_query)
EsRequest(query, index_name) == [index |-> index_name, body |-> SearchQuery(query)]

\* what the search service may answer: a transport or index error, or a
\* response whose hits carry their documents under _source
EsOutcomes ==
    { [ok |-> FALSE, hits |-> <<>>] }
    \cup { [ok |-> TRUE, hits |-> h] : h \in SeqsUpTo(Docs, MaxHits) }

\* the loop over response_es['hits']['hits'] collecting hit['_source']
RECURSIVE ResultDocs(_)
ResultDocs(hits) ==
    IF hits = <<>> THEN <<>> ELSE <<Head(hits)>> \o ResultDocs(Tail(hits))

\* --------------------------------------------------------- build_prompt
Indent == <<SP, SP, SP, SP>>

RawTemplate ==
    <<NL>> \o Indent
    \o <<"You're a course teaching assistant. Answer the QUESTION based on the CONTEXT from the FAQ database.", NL>>
    \o Indent
    \o <<"Use only the facts from the CONTEXT when answering the QUESTION.", NL, NL>>
    \o Indent \o <<"QUESTION:", SP, "{question}", NL, NL>>
    \o Indent \o <<"CONTEXT:", SP, NL>>
    \o Indent \o <<"{context}", NL>>
    \o Indent

prompt_template == Strip(RawTemplate)

\* str.format(question=..., context=...)
RECURSIVE Format(_, _, _)
Format(t, question, context) ==
    IF t = <<>> THEN <<>>
    ELSE (CASE Head(t) = "{question}" -> question
            [] Head(t) = "{context}" -> context
            [] OTHER -> <<Head(t)>>)
         \o Format(Tail(t), question, context)

DocKeys == {"section", "question", "text"}

\* the f-string of the loop body; a missing key raises KeyError
DocBlock(doc) ==
    <<"section:", SP>> \o doc.section \o <<NL, "question:", SP>> \o doc.question
    \o <<NL, "answer:", SP>> \o doc.text \o <<NL, NL>>

\* variant: a document already rendered is not rendered again
RECURSIVE Context_SkipsDuplicates(_)
Context_SkipsDuplicates(search_results) ==
    IF search_results = <<>> THEN <<>>
    ELSE LET n == Len(search_results)
         IN  Context_SkipsDuplicates(SubSeq(search_results, 1, n - 1))
             \o (IF \E i \in 1..(n - 1) : search_results[i] = search_results[n]
                 THEN <<>> ELSE DocBlock(search_results[n]))

RECURSIVE Context(_)
Context(search_results) ==
    IF search_results = <<>> THEN <<>>
    ELSE Context(SubSeq(search_results, 1, Len(search_results) - 1))
         \o DocBlock(search_results[Len(search_results)])

BuildPrompt(query, search_results) ==
    IF \E i \in 1..Len(search_results) : ~(DocKeys \subseteq DOMAIN search_results[i])
    THEN [ok |-> FALSE, error |-> "KeyError", prompt |-> <<>>]
    ELSE [ok |-> TRUE, error |-> "none",
          prompt |-> Strip(Format(prompt_template, query, Context(search_results)))]

\* ------------------------------------------------------------------ llm
LlmRequest(prompt) ==
    [model |-> "phi3", messages |-> << [role |-> "user", content |-> prompt] >>]

\* what the completion service may answer: an error, or a response with a
\* list of choices (an empty list makes choices[0] raise IndexError)
LlmOutcomes ==
    { [ok |-> FALSE, choices |-> <<>>] }
    \cup { [ok |-> TRUE, choices |-> c] : c \in SeqsUpTo(Contents, MaxChoices) }

\* variant: the content is trimmed before it is returned
LlmResult_Stripped(response) ==
    IF ~response.ok THEN [ok |-> FALSE, error |-> "APIError", content |-> <<>>]
    ELSE IF response.choices = <<>>
         THEN [ok |-> FALSE, error |-> "IndexError", content |-> <<>>]
         ELSE [ok |-> TRUE, error |-> "none", content |-> Strip(response.choices[1])]

LlmResult(response) ==
    IF ~response.ok THEN [ok |-> FALSE, error |-> "APIError", content |-> <<>>]
    ELSE IF response.choices = <<>>
         THEN [ok |-> FALSE, error |-> "IndexError", content |-> <<>>]
         ELSE [ok |-> TRUE, error |-> "none", content |-> response.choices[1]]


\* the whole pipeline as one function of the query and of what the two
\* services answer: search, then build_prompt, then llm
Rag(query, es_outcome, llm_outcome) ==
    IF ~es_outcome.ok THEN [ok |-> FALSE, error |-> "SearchError", answer |-> <<>>]
    ELSE LET built == BuildPrompt(query, ResultDocs(es_outcome.hits))
         IN  IF ~built.ok THEN [ok |-> FALSE, error |-> built.error, answer |-> <<>>]
             ELSE LET r == LlmResult(llm_outcome)
                  IN  [ok |-> r.ok, error |-> r.error, answer |-> r.content]

\* ------------------------------------------------------------ variables
VARIABLES
    input_text,     \* MyTextInputApp.input_text
    output_text,    \* MyTextInputApp.output_text
    is_loading,     \* MyTextInputApp.is_loading
    scheduled,      \* callbacks handed to Clock.schedule_once and not yet run
    submits,        \* number of calls of on_ask_clicked
    fired,          \* one entry per callback that has run
    ui_rag_calls,   \* queries the callbacks passed to the orchestrator
    unhandled,      \* exceptions that left a handler uncaught
    loop,           \* the event loop: "running" or "stopped"
    last,           \* the handler that ran last
    pc,             \* position of the current rag() call
    query,          \* rag's argument
    es_request,     \* request of the current call to the search service
    search_results, \* rag's local search_results
    prompt,         \* rag's local prompt
    llm_request,    \* request of the current call to the completion service
    llm_response,   \* response of the completion service to that request
    answer,         \* value returned by rag
    error,          \* exception that left rag
    trace,          \* the calls rag has made, with their outcome
    console         \* progress markers printed by rag

ui_vars == <<input_text, output_text, is_loading, scheduled, submits, fired,
             ui_rag_calls, unhandled, loop, last>>
rag_vars == <<pc, query, es_request, search_results, prompt, llm_request,
              llm_response, answer, error, trace, console>>
vars == <<ui_vars, rag_vars>>

NoRequest == [index |-> "none"]
NoResponse == [ok |-> FALSE, choices |-> <<>>]
NoError == [step |-> "none", kind |-> "none"]

Init ==
    /\ input_text = <<>>
    /\ output_text = <<"Initial Output">>
    /\ is_loading = FALSE
    /\ scheduled = <<>>
    /\ submits = 0
    /\ fired = <<>>
    /\ ui_rag_calls = <<>>
    /\ unhandled = 0
    /\ loop = "running"
    /\ last = "init"
    /\ pc = "idle"
    /\ query = <<>>
    /\ es_request = NoRequest
    /\ search_results = <<>>
    /\ prompt = <<>>
    /\ llm_request = NoRequest
    /\ llm_response = NoResponse
    /\ answer = <<>>
    /\ error = NoError
    /\ trace = <<>>
    /\ console = <<>>

\* ------------------------------------------------------- MyTextInputApp
\* variant: the class has a method rag
AppAttributes_WithRag ==
    {"input_text", "output_text", "is_loading", "window_size", "build",
     "on_text_changed", "on_ask_clicked", "finish_processing", "rag"}

\* names defined in the body of class MyTextInputApp; rag is a function of
\* the module, not of the class, and the base class App has no such name
AppAttributes ==
    {"input_text", "output_text", "is_loading", "window_size", "build",
     "on_text_changed", "on_ask_clicked", "finish_processing"}

Processing == <<"Processing...">>

OnTextChanged(text) ==
    /\ loop = "running"
    /\ input_text' = text
    /\ last' = "on_text_changed"
    /\ UNCHANGED <<output_text, is_loading, scheduled, submits, fired,
                   ui_rag_calls, unhandled, loop>>
    /\ UNCHANGED rag_vars

OnAskClicked ==
    /\ loop = "running"
    /\ submits < MaxSubmits
    /\ is_loading' = TRUE
    /\ output_text' = Processing
    /\ scheduled' = Append(scheduled, [id |-> submits + 1, text_at_submit |-> input_text])
    /\ submits' = submits + 1
    /\ last' = "on_ask_clicked"
    /\ UNCHANGED <<input_text, fired, ui_rag_calls, unhandled, loop>>
    /\ UNCHANGED rag_vars

\* an exception leaves the callback: nothing in the file catches it, and the
\* event loop either stops on it or goes on with the next event
Propagate ==
    /\ unhandled' = unhandled + 1
    /\ loop' \in {"running", "stopped"}

\* variant: the callback resets the busy flag in a finally clause
FinishProcessing_ResetsOnError ==
    /\ loop = "running"
    /\ scheduled # <<>>
    /\ scheduled' = Tail(scheduled)
    /\ last' = "finish_processing"
    /\ fired' = Append(fired, [id |-> Head(scheduled).id,
                               text_at_submit |-> Head(scheduled).text_at_submit,
                               text_at_callback |-> input_text,
                               outcome |-> "AttributeError"])
    /\ is_loading' = FALSE
    /\ Propagate
    /\ UNCHANGED <<input_text, output_text, submits, ui_rag_calls>>
    /\ UNCHANGED rag_vars

\* self.output_text = f"Output: {self.rag(self.input_text)}"; self.is_loading = False
\* The expression self.rag is evaluated first, then its argument.
FinishProcessing ==
    /\ loop = "running"
    /\ scheduled # <<>>
    /\ scheduled' = Tail(scheduled)
    /\ last' = "finish_processing"
    /\ UNCHANGED <<input_text, submits>>
    /\ UNCHANGED rag_vars
    /\ IF "rag" \notin AppAttributes
       THEN /\ fired' = Append(fired, [id |-> Head(scheduled).id,
                                       text_at_submit |-> Head(scheduled).text_at_submit,
                                       text_at_callback |-> input_text,
                                       outcome |-> "AttributeError"])
            /\ Propagate
            /\ UNCHANGED <<output_text, is_loading, ui_rag_calls>>
       ELSE \E es \in EsOutcomes, lo \in LlmOutcomes :
              LET r == Rag(input_text, es, lo)
              IN  /\ ui_rag_calls' = Append(ui_rag_calls, input_text)
                  /\ fired' = Append(fired, [id |-> Head(scheduled).id,
                                             text_at_submit |-> Head(scheduled).text_at_submit,
                                             text_at_callback |-> input_text,
                                             outcome |-> IF r.ok THEN "completed" ELSE r.error])
                  /\ IF r.ok
                     THEN /\ output_text' = <<"Output:", SP>> \o r.answer
                          /\ is_loading' = FALSE
                          /\ UNCHANGED <<unhandled, loop>>
                     ELSE /\ Propagate
                          /\ UNCHANGED <<output_text, is_loading>>

NextUI ==
    \/ \E text \in Queries : OnTextChanged(text)
    \/ OnAskClicked
    \/ FinishProcessing

UISpec == Init /\ [][NextUI]_vars

\* ------------------------------------------------------------------ rag
MarkSearch == "--------------IDENTIFYING RELATED CONTENT USING ELASTIC SEARCH-------------------"
MarkBuild == "--------------BUILDING PROMPT-------------------"
MarkLlm == "--------------CALLING THE LLM-------------------"
MarkReturn == "--------------RETURNING THE ANSWER-------------------"

\* rag(query) is entered: the first marker is printed
RagCall(q) ==
    /\ pc = "idle"
    /\ pc' = "search"
    /\ query' = q
    /\ console' = <<MarkSearch>>
    /\ UNCHANGED <<es_request, search_results, prompt, llm_request, llm_response,
                   answer, error, trace>>
    /\ UNCHANGED ui_vars

\* variant: a failed search is taken for an empty result
RagSearch_SwallowsFailure ==
    /\ pc = "search"
    /\ es_request' = EsRequest(query, DefaultIndex)
    /\ \E out \in EsOutcomes :
         /\ trace' = Append(trace, [step |-> "search", ok |-> out.ok])
         /\ search_results' = IF out.ok THEN ResultDocs(out.hits) ELSE <<>>
         /\ console' = Append(console, MarkBuild)
         /\ pc' = "build"
    /\ UNCHANGED <<query, prompt, llm_request, llm_response, answer, error>>
    /\ UNCHANGED ui_vars

\* search_results = elastic_search(query), then the second marker
RagSearch ==
    /\ pc = "search"
    /\ es_request' = EsRequest(query, DefaultIndex)
    /\ \E out \in EsOutcomes :
         /\ trace' = Append(trace, [step |-> "search", ok |-> out.ok])
         /\ IF out.ok
            THEN /\ search_results' = ResultDocs(out.hits)
                 /\ console' = Append(console, MarkBuild)
                 /\ pc' = "build"
                 /\ UNCHANGED error
            ELSE /\ error' = [step |-> "search", kind |-> "SearchError"]
                 /\ pc' = "raised"
                 /\ UNCHANGED <<search_results, console>>
    /\ UNCHANGED <<query, prompt, llm_request, llm_response, answer>>
    /\ UNCHANGED ui_vars

\* prompt = build_prompt(query, search_results), then the third marker
RagBuildPrompt ==
    /\ pc = "build"
    /\ LET built == BuildPrompt(query, search_results)
       IN  /\ trace' = Append(trace, [step |-> "build", ok |-> built.ok])
           /\ IF built.ok
              THEN /\ prompt' = built.prompt
                   /\ console' = Append(console, MarkLlm)
                   /\ pc' = "llm"
                   /\ UNCHANGED error
              ELSE /\ error' = [step |-> "build", kind |-> built.error]
                   /\ pc' = "raised"
                   /\ UNCHANGED <<prompt, console>>
    /\ UNCHANGED <<query, es_request, search_results, llm_request, llm_response, answer>>
    /\ UNCHANGED ui_vars

\* answer = llm(prompt), then the last marker and the return
RagLlm ==
    /\ pc = "llm"
    /\ llm_request' = LlmRequest(prompt)
    /\ \E out \in LlmOutcomes :
         LET r == LlmResult(out)
         IN  /\ llm_response' = out
             /\ trace' = Append(trace, [step |-> "llm", ok |-> r.ok])
             /\ IF r.ok
                THEN /\ answer' = r.content
                     /\ console' = Append(console, MarkReturn)
                     /\ pc' = "returned"
                     /\ UNCHANGED error
                ELSE /\ error' = [step |-> "llm", kind |-> r.error]
                     /\ pc' = "raised"
                     /\ UNCHANGED <<answer, console>>
    /\ UNCHANGED <<query, es_request, search_results, prompt>>
    /\ UNCHANGED ui_vars

\* the call is over; its locals and its exchanges with the services are gone
RagExit ==
    /\ pc \in {"returned", "raised"}
    /\ pc' = "idle"
    /\ query' = <<>>
    /\ search_results' = <<>>
    /\ prompt' = <<>>
    /\ answer' = <<>>
    /\ error' = NoError
    /\ trace' = <<>>
    /\ console' = <<>>
    /\ es_request' = NoRequest
    /\ llm_request' = NoRequest
    /\ llm_response' = NoResponse
    /\ UNCHANGED ui_vars

\* elastic_search(query, index_name) called on its own
ElasticSearchCall(q, index_name) ==
    /\ pc = "idle"
    /\ es_request' = EsRequest(q, index_name)
    /\ UNCHANGED <<pc, query, search_results, prompt, llm_request, llm_response,
                   answer, error, trace, console>>
    /\ UNCHANGED ui_vars

NextRag ==
    \/ \E q \in Queries : RagCall(q)
    \/ RagSearch
    \/ RagBuildPrompt
    \/ RagLlm
    \/ RagExit
    \/ \E q \in Queries, index_name \in IndexNames : ElasticSearchCall(q, index_name)

RagSpec == Init /\ [][NextRag]_vars

\* ------------------------------------------------------------ properties
Last(s) == s[Len(s)]

\* sub occurs in s starting at position i
OccursAt(s, sub, i) ==
    /\ i >= 1
    /\ i + Len(sub) - 1 <= Len(s)
    /\ \A k \in 1..Len(sub) : s[i + k - 1] = sub[k]

Contains(s, sub) == \E i \in 1..(Len(s) + 1) : OccursAt(s, sub, i)

\* the pieces occur in s one after the other, without overlap, from position from on
RECURSIVE InOrder(_, _, _)
InOrder(s, pieces, from) ==
    IF pieces = <<>> THEN TRUE
    ELSE LET starts == { i \in from..(Len(s) + 1) : OccursAt(s, Head(pieces), i) }
         IN  /\ starts # {}
             /\ LET first == CHOOSE i \in starts : \A j \in starts : i <= j
                IN  InOrder(s, Tail(pieces), first + Len(Head(pieces)))

Count(s, atom) == Cardinality({ i \in 1..Len(s) : s[i] = atom })

QuestionLine(q) == <<"QUESTION:", SP>> \o q \o <<NL>>

\* the three lines of the context block of one document
BlockLines(doc) ==
    <<"section:", SP>> \o doc.section \o <<NL, "question:", SP>> \o doc.question
    \o <<NL, "answer:", SP>> \o doc.text

\* build_prompt has returned a prompt in the current call
Built == \E i \in 1..Len(trace) : trace[i].step = "build" /\ trace[i].ok

\* build_prompt has been called in the current call
BuildCalled == \E i \in 1..Len(trace) : trace[i].step = "build"

StepOrder == <<"search", "build", "llm">>

\* the exceptions that can leave rag
OrchestratorErrors == {"SearchError", "KeyError", "APIError", "IndexError"}

\* C1: is_loading is TRUE right after every submit, and it is never FALSE
\* while a scheduled callback of a submitted request has still to run,
\* also when a second submit comes while the first request is busy.
C1_BusyWhilePending ==
    /\ last = "on_ask_clicked" => is_loading = TRUE
    /\ scheduled # <<>> => is_loading = TRUE

C1_Witness ==
    /\ submits >= 2
    /\ Len(fired) >= 1
    /\ scheduled # <<>>
    /\ loop = "running"
    /\ is_loading = TRUE

\* C2: every submit makes the UI busy and, once the callback's orchestrator
\* call is over without an orchestrator failure, the UI is idle again
\* and output_text is "Output: " followed by the answer.
C2_SubmitThenIdle ==
    /\ last = "on_ask_clicked" => (is_loading = TRUE /\ output_text = Processing)
    /\ (last = "finish_processing"
        /\ Last(fired).outcome \notin OrchestratorErrors)
       => /\ is_loading = FALSE
          /\ Len(output_text) >= 2
          /\ SubSeq(output_text, 1, 2) = <<"Output:", SP>>
          /\ SubSeq(output_text, 3, Len(output_text)) \in Contents

\* C3: when rag returns, its value is the content of the first choice of the
\* completion response, atom for atom.
C3_FirstChoiceUnmodified ==
    pc = "returned" => answer = llm_response.choices[1]

C3_Witness ==
    /\ pc = "returned"
    /\ Len(llm_response.choices) = 2
    /\ llm_response.choices[1] = <<SP, "r", NL>>
    /\ llm_response.choices[2] = <<"r">>
    /\ answer = <<SP, "r", NL>>

C5_SizeAndFilterFixed ==
    es_request # NoRequest =>
        /\ es_request.body.size = 5
        /\ es_request.body.query.bool.filter.term = [course |-> "data-engineering-zoomcamp"]

C5_Witness ==
    /\ es_request # NoRequest
    /\ es_request.index = "other-index"
    /\ es_request.body.query.bool.must.multi_match.query = <<>>

\* C6: within one call of rag the steps run in the order search, build, llm,
\* each at most once and only after every earlier step succeeded; a failed
\* search means no request to the completion service; rag raises the first
\* failure and returns no answer then.
C6_StepsInOrder ==
    /\ Len(trace) <= Len(StepOrder)
    /\ \A i \in 1..Len(trace) : trace[i].step = StepOrder[i]
    /\ \A i \in 1..(Len(trace) - 1) : trace[i].ok
    /\ (trace # <<>> /\ ~Last(trace).ok) => (pc = "raised" /\ error.step = Last(trace).step)
    /\ pc = "raised" => (trace # <<>> /\ ~Last(trace).ok /\ answer = <<>>)
    /\ pc = "returned" => (Len(trace) = 3 /\ \A i \in 1..3 : trace[i].ok)
    /\ (\E i \in 1..Len(trace) : trace[i].step = "search" /\ ~trace[i].ok)
          => llm_request = NoRequest

C6_Witness ==
    /\ pc = "raised"
    /\ error.step = "search"
    /\ trace = << [step |-> "search", ok |-> FALSE] >>
    /\ llm_request = NoRequest

\* C7: build_prompt called with an empty list of search results raises
\* ValueError.
C7_EmptyResultsRaise ==
    (BuildCalled /\ search_results = <<>>)
        => (pc = "raised" /\ error = [step |-> "build", kind |-> "ValueError"])

\* C8: every submit schedules one callback of its own, none is cancelled or
\* merged, and every callback that has run has called the orchestrator: k
\* submits give k callbacks and k orchestrator calls.
C8_OneCallPerSubmit ==
    /\ submits = Len(scheduled) + Len(fired)
    /\ Len(ui_rag_calls) = Len(fired)

C10_QueryReadAtCallback ==
    ui_rag_calls = [i \in 1..Len(fired) |-> fired[i].text_at_callback]

====
